---- MODULE Spec2Model ----
(***************************************************************************)
(* HDBrainExtractionTool (3D Slicer scripted module).                      *)
(*                                                                         *)
(* Two state machines over one set of variables:                           *)
(*   SpecWidget - HDBrainExtractionToolWidget: parameter node <-> GUI       *)
(*                binding, enter/exit, scene close.                         *)
(*   SpecLogic  - HDBrainExtractionToolLogic: setupPythonRequirements,      *)
(*                process, and onApplyButton which chains the two.          *)
(* Python's None is the string "None"; MRML nodes are named by strings.    *)
(***************************************************************************)
EXTENDS Integers, Sequences, FiniteSets, TLC

\* ------------------------------------------------------------------ bounds
\* number of "GPU n" entries that follow "auto" and "cpu" in deviceComboBox
NumGpuEntries == 2
\* number of temporary directories slicer.util.tempDirectory() may hand out
MaxTempDirs == 2

\* ------------------------------------------------------------------ values
None == "None"
Volumes == {"v1", "v2"}
Segmentations == {"s1"}
GpuTexts == <<"GPU 0", "GPU 1", "GPU 2", "GPU 3">>
\* texts of deviceComboBox: index 0 is auto, 1 is cpu, 2.. are GPUs
DeviceItems == <<"auto", "cpu">> \o SubSeq(GpuTexts, 1, NumGpuEntries)
\* values a script may store in the "Device" parameter ("" is unset)
DeviceTexts == {"", "bogus"} \cup {DeviceItems[i] : i \in 1..Len(DeviceItems)}
Roles == {"InputVolume", "OutputVolume", "OutputSegmentation"}
NoParameterNode == [exists |-> FALSE]

VARIABLES
  \* --- MRML scene
  sceneVolumes,        \* scalar volume nodes in the scene, in scene order
  sceneSegmentations,  \* segmentation nodes in the scene
  pn,                  \* the module's singleton parameter node, or NoParameterNode
  \* --- HDBrainExtractionToolWidget
  parameterNode,       \* self._parameterNode is not None
  updatingGUI,         \* self._updatingGUIFromParameterNode
  observed,            \* ModifiedEvent observer of the parameter node is installed
  isEntered,           \* self.parent.isEntered
  ui,                  \* selectors, device combo box, apply button
  wtrace,              \* what the last widget event did (event, refreshes, signals, writeBacks)
  \* --- HDBrainExtractionToolLogic and its environment
  installed,           \* importable packages: torch, HD_BET, batchgenerators
  paramDir,            \* HD_BET.paths.folder_with_parameter_files exists
  cuda,                \* PyTorchUtilsLogic().cuda
  setupCompleted,      \* a run of setupPythonRequirements has returned normally
  tempDirs,            \* temp directories created so far
  files,               \* files on disk: <<temp dir, file name>>
  volumeData,          \* content of each volume node
  segData,             \* content of each segmentation node
  ltrace               \* what the last logic call did

widgetVars == <<sceneVolumes, sceneSegmentations, pn, parameterNode, updatingGUI,
                observed, isEntered, ui, wtrace>>
logicVars == <<installed, paramDir, cuda, setupCompleted, tempDirs, files, volumeData, segData, ltrace>>
vars == <<widgetVars, logicVars>>

\* ================================================================== widget
\* The widget-side state as one record, so that a handler and the handlers
\* it triggers (signals, observers) compose as functions.
CurW ==
  [sceneVolumes |-> sceneVolumes, sceneSegmentations |-> sceneSegmentations,
   pn |-> pn, parameterNode |-> parameterNode, updatingGUI |-> updatingGUI,
   observed |-> observed, isEntered |-> isEntered, ui |-> ui, wtrace |-> wtrace]

SetW(w) ==
  /\ sceneVolumes' = w.sceneVolumes
  /\ sceneSegmentations' = w.sceneSegmentations
  /\ pn' = w.pn
  /\ parameterNode' = w.parameterNode
  /\ updatingGUI' = w.updatingGUI
  /\ observed' = w.observed
  /\ isEntered' = w.isEntered
  /\ ui' = w.ui
  /\ wtrace' = w.wtrace

\* Sequencing: F applied to the value of x.  (The value is computed once,
\* like the result of a statement that later statements read.)
Bind(x, F(_)) == CHOOSE r \in {F(y) : y \in {x}} : TRUE

\* start of a top-level event: the per-event counters restart
Begin(w, event, obs) ==
  [w EXCEPT !.wtrace = [event |-> event, observedBefore |-> obs,
                        refreshes |-> 0, signals |-> 0, writeBacks |-> 0]]

\* QComboBox.findText: index (0-based) of text among the items, -1 if absent
FindText(text) ==
  IF \E i \in 1..Len(DeviceItems) : DeviceItems[i] = text
  THEN (CHOOSE i \in 1..Len(DeviceItems) : DeviceItems[i] = text) - 1
  ELSE -1

\* deviceComboBox.currentText
CurrentText(w) == DeviceItems[w.ui.deviceIndex + 1]

\* the Apply button's condition (lines 188-189)
HasInputAndOutput_Or(p) ==
  \/ p.InputVolume # None
  \/ (p.OutputVolume # None \/ p.OutputSegmentation # None)
HasInputAndOutput(p) ==
  /\ p.InputVolume # None
  /\ (p.OutputVolume # None \/ p.OutputSegmentation # None)

\* the early return of updateParameterNodeFromGUI (line 209)
WriteBackBlocked_NoFlag(w) == ~w.parameterNode
WriteBackBlocked(w) == ~w.parameterNode \/ w.updatingGUI

\* the early return of updateGUIFromParameterNode (line 175)
RefreshBlocked(w) == ~w.parameterNode \/ w.updatingGUI

RECURSIVE updateGUIFromParameterNode(_)

\* vtkMRMLNode Modified(): invokes the observer when one is installed
Modified(w) == IF w.observed THEN updateGUIFromParameterNode(w) ELSE w

\* updateParameterNodeFromGUI: slot of the four widget-change signals
updateParameterNodeFromGUI(w) ==
  Bind([w EXCEPT !.wtrace.signals = @ + 1], LAMBDA s :
    IF WriteBackBlocked(s) THEN s
    ELSE Bind([exists |-> TRUE,
               InputVolume |-> s.ui.inputVolumeSelector,
               OutputVolume |-> s.ui.outputVolumeSelector,
               OutputSegmentation |-> s.ui.outputSegmentationSelector,
               Device |-> CurrentText(s)], LAMBDA new :
         \* StartModify/EndModify: one Modified event if anything changed
         IF new = s.pn THEN [s EXCEPT !.wtrace.writeBacks = @ + 1]
         ELSE Modified([s EXCEPT !.wtrace.writeBacks = @ + 1, !.pn = new])))

\* qMRMLNodeComboBox.setCurrentNode: emits currentNodeChanged on a change
SetCurrentNode(w, selector, node) ==
  IF w.ui[selector] = node THEN w
  ELSE Bind([w EXCEPT !.ui[selector] = node], LAMBDA s : updateParameterNodeFromGUI(s))

\* QComboBox.setCurrentText on a non-editable box: selects the item with that
\* text if there is one; emits currentIndexChanged on a change
SetCurrentText(w, text) ==
  Bind(FindText(text), LAMBDA i :
    IF i = -1 \/ i = w.ui.deviceIndex THEN w
    ELSE Bind([w EXCEPT !.ui.deviceIndex = i], LAMBDA s : updateParameterNodeFromGUI(s)))

\* (variant: the reset of line 201 placed inside the "if inputVolume:" block)
updateGUIFromParameterNode_ResetUnderIf(w) ==
  IF RefreshBlocked(w) THEN w
  ELSE
    Bind([w EXCEPT !.updatingGUI = TRUE, !.wtrace.refreshes = @ + 1], LAMBDA w0 :
    Bind(SetCurrentNode(w0, "inputVolumeSelector", w0.pn.InputVolume), LAMBDA w1 :
    Bind(SetCurrentNode(w1, "outputVolumeSelector", w1.pn.OutputVolume), LAMBDA w2 :
    Bind(SetCurrentNode(w2, "outputSegmentationSelector", w2.pn.OutputSegmentation), LAMBDA w3 :
    Bind(SetCurrentText(w3, w3.pn.Device), LAMBDA w4 :
      [w4 EXCEPT !.ui.applyEnabled = HasInputAndOutput(w4.pn),
                 !.updatingGUI = (w4.pn.InputVolume = None)])))))

updateGUIFromParameterNode(w) ==
  IF RefreshBlocked(w) THEN w
  ELSE
    Bind([w EXCEPT !.updatingGUI = TRUE, !.wtrace.refreshes = @ + 1], LAMBDA w0 :
    Bind(SetCurrentNode(w0, "inputVolumeSelector", w0.pn.InputVolume), LAMBDA w1 :
    Bind(SetCurrentNode(w1, "outputVolumeSelector", w1.pn.OutputVolume), LAMBDA w2 :
    Bind(SetCurrentNode(w2, "outputSegmentationSelector", w2.pn.OutputSegmentation), LAMBDA w3 :
    Bind(SetCurrentText(w3, w3.pn.Device), LAMBDA w4 :
      [w4 EXCEPT !.ui.applyEnabled = HasInputAndOutput(w4.pn),
                 !.updatingGUI = FALSE])))))

\* HDBrainExtractionToolLogic.setDefaultParameters on the node's content
setDefaultParameters_Always(p) == [p EXCEPT !.Device = "auto"]
setDefaultParameters(p) ==
  IF p.Device = "" THEN [p EXCEPT !.Device = "auto"] ELSE p

\* a write to the parameter node by anyone: Modified fires if it changed
WriteParameterNode(w, new) ==
  IF new = w.pn THEN w ELSE Bind([w EXCEPT !.pn = new], LAMBDA s : Modified(s))

setParameterNode(w, node) ==
  Bind(IF node THEN WriteParameterNode(w, setDefaultParameters(w.pn)) ELSE w, LAMBDA w1 :
  Bind(IF w1.parameterNode THEN [w1 EXCEPT !.observed = FALSE] ELSE w1, LAMBDA w2 :
  Bind([w2 EXCEPT !.parameterNode = node, !.observed = IF node THEN TRUE ELSE @], LAMBDA w3 :
    updateGUIFromParameterNode(w3))))

\* logic.getParameterNode(): the scene's singleton, created empty when absent
getParameterNode(w) ==
  IF w.pn.exists THEN w
  ELSE [w EXCEPT !.pn = [exists |-> TRUE, InputVolume |-> None, OutputVolume |-> None,
                         OutputSegmentation |-> None, Device |-> ""]]

initializeParameterNode(w) ==
  Bind(getParameterNode(w), LAMBDA w0 :
  Bind(setParameterNode(w0, TRUE), LAMBDA w1 :
    IF w1.pn.InputVolume = None /\ w1.sceneVolumes # <<>>
    THEN WriteParameterNode(w1, [w1.pn EXCEPT !.InputVolume = Head(w1.sceneVolumes)])
    ELSE w1))

enter(w) == Bind([w EXCEPT !.isEntered = TRUE], LAMBDA s : initializeParameterNode(s))

exit(w) == [w EXCEPT !.isEntered = FALSE, !.observed = FALSE]

onSceneStartClose(w) == setParameterNode(w, FALSE)

onSceneEndClose(w) == IF w.isEntered THEN initializeParameterNode(w) ELSE w

\* slicer.mrmlScene.Clear(): StartCloseEvent, every node removed (the node
\* selectors fall back to no selection), EndCloseEvent
SceneClear(w) ==
  Bind(onSceneStartClose(w), LAMBDA a :
  Bind([a EXCEPT !.sceneVolumes = <<>>, !.sceneSegmentations = {},
                 !.pn = NoParameterNode], LAMBDA b :
  Bind(SetCurrentNode(b, "inputVolumeSelector", None), LAMBDA c :
  Bind(SetCurrentNode(c, "outputVolumeSelector", None), LAMBDA d :
  Bind(SetCurrentNode(d, "outputSegmentationSelector", None), LAMBDA e :
    onSceneEndClose(e))))))

\* state after __init__ and setup(), for a scene holding the volumes vols
Constructed(vols, segs) ==
  [sceneVolumes |-> vols, sceneSegmentations |-> segs, pn |-> NoParameterNode,
   parameterNode |-> FALSE, updatingGUI |-> FALSE, observed |-> FALSE,
   isEntered |-> FALSE,
   ui |-> [inputVolumeSelector |-> None, outputVolumeSelector |-> None,
           outputSegmentationSelector |-> None, deviceIndex |-> 0,
           applyEnabled |-> FALSE],
   wtrace |-> [event |-> "setup", observedBefore |-> FALSE,
               refreshes |-> 0, signals |-> 0, writeBacks |-> 0]]

VolumesInScene(w) == {w.sceneVolumes[i] : i \in 1..Len(w.sceneVolumes)}

Selectable(w, selector) ==
  IF selector = "outputSegmentationSelector"
  THEN w.sceneSegmentations \cup {None}
  ELSE VolumesInScene(w) \cup {None}

Referable(w, role) ==
  IF role = "OutputSegmentation"
  THEN w.sceneSegmentations \cup {None}
  ELSE VolumesInScene(w) \cup {None}

Selectors == {"inputVolumeSelector", "outputVolumeSelector", "outputSegmentationSelector"}

\* ---------------------------------------------------------- widget actions
Enter ==
  /\ ~isEntered
  /\ \E r \in {enter(Begin(CurW, "enter", observed))} : SetW(r)

Exit ==
  /\ isEntered
  /\ \E r \in {exit(Begin(CurW, "exit", observed))} : SetW(r)

SceneClose == \E r \in {SceneClear(Begin(CurW, "sceneClose", observed))} : SetW(r)

\* a node is loaded into the scene
AddVolume ==
  \E v \in Volumes \ VolumesInScene(CurW) :
    \E r \in {[Begin(CurW, "addNode", observed) EXCEPT !.sceneVolumes = Append(@, v)]} : SetW(r)

AddSegmentation ==
  \E s \in Segmentations \ sceneSegmentations :
    \E r \in {[Begin(CurW, "addNode", observed) EXCEPT !.sceneSegmentations = @ \cup {s}]} : SetW(r)

\* the user picks a node in one of the three selectors
UserSelectNode ==
  \E selector \in Selectors : \E n \in Selectable(CurW, selector) :
    /\ ui[selector] # n
    /\ \E r \in {SetCurrentNode(Begin(CurW, "gui", observed), selector, n)} : SetW(r)

\* the user picks a device in the combo box
UserSelectDevice ==
  \E i \in 0..(Len(DeviceItems) - 1) :
    /\ ui.deviceIndex # i
    /\ \E r \in {updateParameterNodeFromGUI(
              [Begin(CurW, "gui", observed) EXCEPT !.ui.deviceIndex = i])} : SetW(r)

\* a script changes one node reference of the parameter node
ScriptSetNodeReference ==
  /\ pn.exists
  /\ \E role \in Roles : \E n \in Referable(CurW, role) :
       /\ pn[role] # n
       /\ \E r \in {WriteParameterNode(Begin(CurW, "script", observed),
                                  [pn EXCEPT ![role] = n])} : SetW(r)

\* a script changes the Device parameter of the parameter node
ScriptSetParameter ==
  /\ pn.exists
  /\ \E text \in DeviceTexts :
       /\ pn.Device # text
       /\ \E r \in {WriteParameterNode(Begin(CurW, "script", observed),
                                  [pn EXCEPT !.Device = text])} : SetW(r)

\* a script calls logic.setDefaultParameters(parameterNode)
CallSetDefaultParameters ==
  /\ pn.exists
  /\ \E r \in {WriteParameterNode(Begin(CurW, "setDefaultParameters", observed),
                             setDefaultParameters(pn))} : SetW(r)

InitLogicIdle ==
  /\ installed = [torch |-> FALSE, HD_BET |-> FALSE, batchgenerators |-> FALSE]
  /\ paramDir = FALSE
  /\ cuda = FALSE
  /\ setupCompleted = FALSE
  /\ tempDirs = 0
  /\ files = {}
  /\ volumeData = [v \in Volumes |-> "image"]
  /\ segData = [s \in Segmentations |-> [segments |-> 0, name |-> "", tag |-> "", color |-> ""]]
  /\ ltrace = [call |-> "none", args |-> [given |-> FALSE], setup |-> <<>>, io |-> <<>>,
               tool |-> [called |-> FALSE], processInvoked |-> FALSE, dir |-> 0,
               completedBefore |-> FALSE, exc |-> "none"]

InitWidget ==
  /\ \E vols \in {<<>>, <<"v1">>} :
       \E w \in {initializeParameterNode(Constructed(vols, {}))} :
       /\ sceneVolumes = w.sceneVolumes
       /\ sceneSegmentations = w.sceneSegmentations
       /\ pn = w.pn
       /\ parameterNode = w.parameterNode
       /\ updatingGUI = w.updatingGUI
       /\ observed = w.observed
       /\ isEntered = w.isEntered
       /\ ui = w.ui
       /\ wtrace = w.wtrace
  /\ InitLogicIdle

NextWidget ==
  \/ (Enter /\ UNCHANGED logicVars)
  \/ (Exit /\ UNCHANGED logicVars)
  \/ (SceneClose /\ UNCHANGED logicVars)
  \/ (AddVolume /\ UNCHANGED logicVars)
  \/ (AddSegmentation /\ UNCHANGED logicVars)
  \/ (UserSelectNode /\ UNCHANGED logicVars)
  \/ (UserSelectDevice /\ UNCHANGED logicVars)
  \/ (ScriptSetNodeReference /\ UNCHANGED logicVars)
  \/ (ScriptSetParameter /\ UNCHANGED logicVars)
  \/ (CallSetDefaultParameters /\ UNCHANGED logicVars)

SpecWidget == InitWidget /\ [][NextWidget]_vars

\* =================================================================== logic
\* The logic-side state as one record (see CurW).
CurL ==
  [installed |-> installed, paramDir |-> paramDir, cuda |-> cuda,
   setupCompleted |-> setupCompleted, tempDirs |-> tempDirs, files |-> files,
   volumeData |-> volumeData, segData |-> segData, ltrace |-> ltrace]

SetL(l) ==
  /\ installed' = l.installed
  /\ paramDir' = l.paramDir
  /\ cuda' = l.cuda
  /\ setupCompleted' = l.setupCompleted
  /\ tempDirs' = l.tempDirs
  /\ files' = l.files
  /\ volumeData' = l.volumeData
  /\ segData' = l.segData
  /\ ltrace' = l.ltrace

\* device arguments of process: None, "auto", "cpu" or an int
DeviceNone == [kind |-> "None", index |-> 0]
DeviceAuto == [kind |-> "auto", index |-> 0]
DeviceCpu == [kind |-> "cpu", index |-> 0]
DeviceInt(i) == [kind |-> "int", index |-> i]
DeviceArgs ==
  {DeviceNone, DeviceAuto, DeviceCpu} \cup {DeviceInt(i) : i \in 0..(NumGpuEntries - 1)}

NoToolCall == [called |-> FALSE]
NoArgs == [given |-> FALSE]

\* start of a top-level call of the logic: the record of what it did restarts
BeginL(l, call) ==
  [l EXCEPT !.ltrace = [call |-> call, args |-> NoArgs, setup |-> <<>>, io |-> <<>>,
                        tool |-> NoToolCall, processInvoked |-> FALSE, dir |-> 0,
                        completedBefore |-> l.setupCompleted, exc |-> "none"]]

Raise(l, e) == [l EXCEPT !.ltrace.exc = e]
SetupEffect(l, e) == [l EXCEPT !.ltrace.setup = Append(@, e)]
IoEffect(l, e) == [l EXCEPT !.ltrace.io = Append(@, e)]
Raised(l) == l.ltrace.exc # "none"

\* ------------------------------------------------ setupPythonRequirements
\* what the environment answers during one run: the user's answer to the
\* PyTorch installation prompt and whether download and pip succeed
SetupAnswers ==
  [torch : {"declined", "installed", "failed"}, download : BOOLEAN, pip : BOOLEAN]
\* the answers that one run can get: a question is answered only if asked
\* (a package that is present is neither prompted for nor fetched)
AnswersFor(l) ==
  {a \in SetupAnswers :
     /\ (l.installed.torch => a.torch = "installed")
     /\ (l.installed.HD_BET => a.download)
     /\ (l.installed.batchgenerators => a.pip)}

ValueErrorTorch == "ValueError: PyTorch extension needs to be installed to use this module."

\* lines 266-272
InstallTorch_IgnoreDecline(l, answers) ==
  IF l.installed.torch THEN l
  ELSE IF answers.torch = "declined"
       THEN SetupEffect(l, "installTorch:declined")
       ELSE IF answers.torch = "failed"
            THEN Raise(SetupEffect(l, "installTorch:failed"), "InstallError")
            ELSE [SetupEffect(l, "installTorch") EXCEPT !.installed.torch = TRUE]
InstallTorch(l, answers) ==
  IF l.installed.torch THEN l
  ELSE IF answers.torch = "declined"
       THEN Raise(SetupEffect(l, "installTorch:declined"), ValueErrorTorch)
       ELSE IF answers.torch = "failed"
            THEN Raise(SetupEffect(l, "installTorch:failed"), "InstallError")
            ELSE [SetupEffect(l, "installTorch") EXCEPT !.installed.torch = TRUE]

\* lines 275-279: import HD_BET fails
NeedToInstallHdBet(l) == ~l.installed.HD_BET

\* lines 280-294
InstallHdBet(l, answers) ==
  IF ~NeedToInstallHdBet(l) THEN l
  ELSE Bind(SetupEffect(l, "tempDirectory"), LAMBDA a :
       IF ~answers.download
       THEN Raise(SetupEffect(a, "downloadFile:failed"), "DownloadError")
       ELSE Bind(SetupEffect(a, "downloadFile"), LAMBDA b :
            Bind(SetupEffect(b, "extractArchive"), LAMBDA c :
            Bind(SetupEffect(c, "move"), LAMBDA d :
              [d EXCEPT !.installed.HD_BET = TRUE]))))

\* lines 297-299: os.makedirs(..., exist_ok=True)
EnsureParameterFolder(l) == [SetupEffect(l, "makedirs") EXCEPT !.paramDir = TRUE]

\* lines 302-306: import batchgenerators fails
NeedToInstallBatchGenerators_Always(l) == TRUE
NeedToInstallBatchGenerators(l) == ~l.installed.batchgenerators

\* lines 307-308
InstallBatchGenerators(l, answers) ==
  IF ~NeedToInstallBatchGenerators(l) THEN l
  ELSE IF ~answers.pip
       THEN Raise(SetupEffect(l, "pip_install:failed"), "InstallError")
       ELSE [SetupEffect(l, "pip_install") EXCEPT !.installed.batchgenerators = TRUE]

setupPythonRequirements(l, answers) ==
  Bind(InstallTorch(l, answers), LAMBDA a :
  IF Raised(a) THEN a ELSE
  Bind(InstallHdBet(a, answers), LAMBDA b :
  IF Raised(b) THEN b ELSE
  Bind(EnsureParameterFolder(b), LAMBDA c :
  Bind(InstallBatchGenerators(c, answers), LAMBDA d :
  IF Raised(d) THEN d ELSE [d EXCEPT !.setupCompleted = TRUE]))))

\* ---------------------------------------------------------------- process
InputFile == "hdbet-input.nii.gz"
OutputFile == "hdbet-output.nii.gz"
OutputSegmentationFile == "hdbet-output_mask.nii.gz"

ValueErrorInput == "ValueError: Input or output volume is invalid"

\* line 328: not inputVolume
InputInvalid_Never(inputVolume) == FALSE
InputInvalid(inputVolume) == inputVolume = None

\* Python truth value of the device argument (line 335): None and 0 are false
Falsy(device) == device.kind = "None" \/ (device.kind = "int" /\ device.index = 0)

\* lines 335-344
ResolveDevice(l, device) ==
  Bind(IF Falsy(device) THEN DeviceAuto ELSE device, LAMBDA d :
    IF d = DeviceAuto
    THEN (IF l.cuda THEN DeviceInt(0) ELSE DeviceCpu)
    ELSE d)

\* lines 368-375
Mode(device) == IF device # DeviceCpu THEN "accurate" ELSE "fast"
EnableAugmentation(device) == device # DeviceCpu

\* lines 376-377
SaveMask_Always(outputSegmentation) == TRUE
SaveMask(outputSegmentation) == outputSegmentation # None
SaveMaskedVolume(outputVolume) == outputVolume # None

\* the files run_hd_bet is asked to leave behind
Requested(keep_mask, bet) ==
  (IF bet THEN {OutputFile} ELSE {}) \cup (IF keep_mask THEN {OutputSegmentationFile} ELSE {})

\* how one invocation of the external tool ends: normally, with the files it
\* was asked for, or with an exception, with some of them
ToolOutcomes ==
  {[ok |-> TRUE, left |-> {OutputFile, OutputSegmentationFile}]}
    \cup [ok : {FALSE}, left : {{}, {OutputFile, OutputSegmentationFile}}]

\* line 380: run_hd_bet([input_file], [output_file], mode, config_file, device,
\*   postprocess=True, do_tta=..., keep_mask=..., overwrite=True, bet=...)
RunHdBet_SwallowError(l, dir, device, outputVolume, outputSegmentation, outcome) ==
  Bind([mode |-> Mode(device), device |-> device,
        do_tta |-> EnableAugmentation(device),
        keep_mask |-> SaveMask(outputSegmentation),
        bet |-> SaveMaskedVolume(outputVolume)], LAMBDA a :
  Bind([IoEffect(l, <<"run_hd_bet">>) EXCEPT
          !.ltrace.tool = [called |-> TRUE, mode |-> a.mode, device |-> a.device,
                           do_tta |-> a.do_tta, keep_mask |-> a.keep_mask,
                           bet |-> a.bet, input |-> <<dir, InputFile>>,
                           raised |-> ~outcome.ok]], LAMBDA t :
    IF outcome.ok
    THEN [t EXCEPT !.files = @ \cup {<<dir, f>> : f \in Requested(a.keep_mask, a.bet)}]
    ELSE [t EXCEPT !.files = @ \cup {<<dir, f>> : f \in
                                       Requested(a.keep_mask, a.bet) \cap outcome.left}]))
RunHdBet(l, dir, device, outputVolume, outputSegmentation, outcome) ==
  Bind([mode |-> Mode(device), device |-> device,
        do_tta |-> EnableAugmentation(device),
        keep_mask |-> SaveMask(outputSegmentation),
        bet |-> SaveMaskedVolume(outputVolume)], LAMBDA a :
  Bind([IoEffect(l, <<"run_hd_bet">>) EXCEPT
          !.ltrace.tool = [called |-> TRUE, mode |-> a.mode, device |-> a.device,
                           do_tta |-> a.do_tta, keep_mask |-> a.keep_mask,
                           bet |-> a.bet, input |-> <<dir, InputFile>>,
                           raised |-> ~outcome.ok]], LAMBDA t :
    IF outcome.ok
    THEN [t EXCEPT !.files = @ \cup {<<dir, f>> : f \in Requested(a.keep_mask, a.bet)}]
    ELSE Raise([t EXCEPT !.files = @ \cup {<<dir, f>> : f \in
                                   Requested(a.keep_mask, a.bet) \cap outcome.left}],
               "ToolError")))

\* os.remove(path)
Remove(l, path) ==
  IF path \in l.files
  THEN [IoEffect(l, <<"remove", path[2]>>) EXCEPT !.files = @ \ {path}]
  ELSE Raise(l, "FileNotFoundError")

\* lines 358-362: WriteData(inputVolume) to input_file
WriteInput(l, dir) ==
  [IoEffect(l, <<"write", InputFile>>) EXCEPT !.files = @ \cup {<<dir, InputFile>>}]

\* lines 387-392: ReadData(outputVolume) from output_file, os.remove(output_file)
ReadOutputVolume_KeepFile(l, dir, outputVolume) ==
  IF outputVolume = None THEN l
  ELSE IF <<dir, OutputFile>> \in l.files
       THEN [IoEffect(l, <<"read", OutputFile>>) EXCEPT !.volumeData[outputVolume] = "stripped"]
       ELSE IoEffect(l, <<"read", OutputFile>>)
ReadOutputVolume(l, dir, outputVolume) ==
  IF outputVolume = None THEN l
  ELSE Bind(IF <<dir, OutputFile>> \in l.files
            THEN [IoEffect(l, <<"read", OutputFile>>) EXCEPT
                    !.volumeData[outputVolume] = "stripped"]
            ELSE IoEffect(l, <<"read", OutputFile>>), LAMBDA a :
         Remove(a, <<dir, OutputFile>>))

BrainTerminology ==
  "Segmentation category and type - 3D Slicer General Anatomy list~SCT^123037004^Anatomical Structure~SCT^12738006^Brain~^^~Anatomic codes - DICOM master list~^^~^^"
BrainColor == "0.9803921568627451, 0.9803921568627451, 0.8823529411764706"
EmptySegmentation == [segments |-> 0, name |-> "", tag |-> "", color |-> ""]
\* a segmentation as read from the mask file: one segment, not yet named
MaskSegmentation == [segments |-> 1, name |-> "Segment_1", tag |-> "", color |-> "default"]

\* lines 394-413: ReadData(outputSegmentation), os.remove, terminology, name, color
ReadOutputSegmentation(l, dir, outputSegmentation) ==
  IF outputSegmentation = None THEN l
  ELSE Bind(IF <<dir, OutputSegmentationFile>> \in l.files
            THEN [IoEffect(l, <<"read", OutputSegmentationFile>>) EXCEPT
                    !.segData[outputSegmentation] = MaskSegmentation]
            ELSE IoEffect(l, <<"read", OutputSegmentationFile>>), LAMBDA a :
       Bind(Remove(a, <<dir, OutputSegmentationFile>>), LAMBDA b :
         IF Raised(b) THEN b
         ELSE [IoEffect(b, <<"tag", outputSegmentation>>) EXCEPT
                 !.segData[outputSegmentation] =
                    [@ EXCEPT !.tag = BrainTerminology, !.name = "brain",
                              !.color = BrainColor]]))

process(l, inputVolume, outputVolume, outputSegmentation, device, outcome) ==
  Bind([l EXCEPT !.ltrace.processInvoked = TRUE,
                 !.ltrace.args = [given |-> TRUE, inputVolume |-> inputVolume,
                                  outputVolume |-> outputVolume,
                                  outputSegmentation |-> outputSegmentation,
                                  device |-> device]], LAMBDA l0 :
  IF InputInvalid(inputVolume) THEN Raise(l0, ValueErrorInput) ELSE
  Bind(ResolveDevice(l0, device), LAMBDA dev :
  Bind(l0.tempDirs + 1, LAMBDA dir :
  Bind([IoEffect(l0, <<"tempDirectory">>) EXCEPT !.tempDirs = dir, !.ltrace.dir = dir],
       LAMBDA l1 :
  Bind(WriteInput(l1, dir), LAMBDA l2 :
  Bind(RunHdBet(l2, dir, dev, outputVolume, outputSegmentation, outcome), LAMBDA l3 :
  IF Raised(l3) THEN l3 ELSE
  Bind(Remove(l3, <<dir, InputFile>>), LAMBDA l4 :
  IF Raised(l4) THEN l4 ELSE
  Bind(ReadOutputVolume(l4, dir, outputVolume), LAMBDA l5 :
  IF Raised(l5) THEN l5 ELSE
    ReadOutputSegmentation(l5, dir, outputSegmentation)))))))))

\* lines 229-234: the device argument for the combo box's current index
DeviceOfIndex(i) ==
  IF i = 0 THEN DeviceAuto ELSE IF i = 1 THEN DeviceCpu ELSE DeviceInt(i - 2)

\* onApplyButton, inside tryWithErrorDisplay: an exception ends the block
onApplyButton(l, inputVolume, outputVolume, outputSegmentation, index, answers, outcome) ==
  Bind(setupPythonRequirements(l, answers), LAMBDA a :
    IF Raised(a) THEN a
    ELSE process(a, inputVolume, outputVolume, outputSegmentation,
                 DeviceOfIndex(index), outcome))

\* ----------------------------------------------------------- logic actions
\* the volumes passed as input and as output in the calls below
InputVolumes == {"v1"}
OutputVolumes == {"v2"}

\* a script (or the module's test) calls logic.setupPythonRequirements()
CallSetupPythonRequirements ==
  \E answers \in AnswersFor(CurL) :
    \E r \in {setupPythonRequirements(BeginL(CurL, "setupPythonRequirements"), answers)} :
      SetL(r)

\* a script calls logic.process(inputVolume, outputVolume, outputSegmentation, device)
\* with HD_BET importable
CallProcess ==
  /\ tempDirs < MaxTempDirs
  /\ installed.torch /\ installed.HD_BET /\ installed.batchgenerators
  /\ \E i \in InputVolumes \cup {None}, o \in OutputVolumes \cup {None},
        s \in Segmentations \cup {None}, d \in DeviceArgs, outcome \in ToolOutcomes :
       \E r \in {process(BeginL(CurL, "process"), i, o, s, d, outcome)} : SetL(r)

\* the Apply button is clicked with some selection in the GUI
ClickApply ==
  /\ tempDirs < MaxTempDirs
  /\ \E i \in InputVolumes \cup {None}, o \in OutputVolumes \cup {None},
        s \in Segmentations \cup {None}, index \in 0..(Len(DeviceItems) - 1),
        answers \in AnswersFor(CurL), outcome \in ToolOutcomes :
       \E r \in {onApplyButton(BeginL(CurL, "onApplyButton"), i, o, s, index,
                               answers, outcome)} : SetL(r)

InitLogic ==
  /\ installed \in [torch : BOOLEAN, HD_BET : BOOLEAN, batchgenerators : BOOLEAN]
  /\ paramDir = installed.HD_BET  \* created by the run that installed HD_BET
  /\ cuda \in BOOLEAN
  /\ setupCompleted = FALSE
  /\ tempDirs = 0
  /\ files = {}
  /\ volumeData = [v \in Volumes |-> "image"]
  /\ segData = [s \in Segmentations |-> EmptySegmentation]
  /\ ltrace = BeginL([setupCompleted |-> FALSE, ltrace |-> 0], "none").ltrace
  /\ \E w \in {initializeParameterNode(Constructed(<<>>, {}))} :
       /\ sceneVolumes = w.sceneVolumes
       /\ sceneSegmentations = w.sceneSegmentations
       /\ pn = w.pn
       /\ parameterNode = w.parameterNode
       /\ updatingGUI = w.updatingGUI
       /\ observed = w.observed
       /\ isEntered = w.isEntered
       /\ ui = w.ui
       /\ wtrace = w.wtrace

NextLogic ==
  \/ (CallSetupPythonRequirements /\ UNCHANGED widgetVars)
  \/ (CallProcess /\ UNCHANGED widgetVars)
  \/ (ClickApply /\ UNCHANGED widgetVars)

SpecLogic == InitLogic /\ [][NextLogic]_vars

\* ================================================================== claims
InIo(e) == \E i \in 1..Len(ltrace.io) : ltrace.io[i] = e
InSetup(e) == \E i \in 1..Len(ltrace.setup) : ltrace.setup[i] = e
TempFileNames == {InputFile, OutputFile, OutputSegmentationFile}

\* C1: process with a null input volume, whatever the other arguments, raises
\* the missing-input ValueError and does nothing else: no temp directory, no
\* file written, read or removed, no run_hd_bet call, no output node changed.
C1_NullInputNoIO ==
  [][(ltrace'.processInvoked /\ ltrace'.args.inputVolume = None) =>
       /\ ltrace'.exc = ValueErrorInput
       /\ ltrace'.io = <<>>
       /\ ltrace'.tool = NoToolCall
       /\ tempDirs' = tempDirs
       /\ files' = files
       /\ volumeData' = volumeData
       /\ segData' = segData]_vars

C1_Witness ==
  /\ ltrace.call = "process"
  /\ ltrace.processInvoked
  /\ ltrace.args.inputVolume = None
  /\ ltrace.args.outputVolume # None
  /\ ltrace.args.outputSegmentation # None
  /\ ltrace.args.device = DeviceInt(1)
  /\ ltrace.exc = ValueErrorInput

\* C2: device resolution as the claim states it: auto with CUDA -> GPU 0,
\* accurate, augmentation; auto without CUDA -> cpu, fast, no augmentation;
\* cpu -> fast, no augmentation; every explicit int index (0 included) ->
\* that index, accurate, augmentation, whatever the CUDA availability.
C2_DeviceResolution ==
  ltrace.tool.called =>
    /\ (ltrace.args.device = DeviceAuto /\ cuda =>
          /\ ltrace.tool.device = DeviceInt(0)
          /\ ltrace.tool.mode = "accurate" /\ ltrace.tool.do_tta)
    /\ (ltrace.args.device = DeviceAuto /\ ~cuda =>
          /\ ltrace.tool.device = DeviceCpu
          /\ ltrace.tool.mode = "fast" /\ ~ltrace.tool.do_tta)
    /\ (ltrace.args.device = DeviceCpu =>
          /\ ltrace.tool.device = DeviceCpu
          /\ ltrace.tool.mode = "fast" /\ ~ltrace.tool.do_tta)
    /\ (ltrace.args.device.kind = "int" =>
          /\ ltrace.tool.device = ltrace.args.device
          /\ ltrace.tool.mode = "accurate" /\ ltrace.tool.do_tta)

\* C3: after a process call that returns normally none of the three temp
\* files of its temp directory exists; the input file was removed and each
\* file run_hd_bet was asked for was read and then removed.
ReadThenRemoved(f) ==
  \E i, j \in 1..Len(ltrace.io) :
    i < j /\ ltrace.io[i] = <<"read", f>> /\ ltrace.io[j] = <<"remove", f>>

C3_NoTempFilesAfterSuccess ==
  (ltrace.processInvoked /\ ltrace.exc = "none") =>
    /\ \A f \in TempFileNames : <<ltrace.dir, f>> \notin files
    /\ InIo(<<"write", InputFile>>) /\ InIo(<<"remove", InputFile>>)
    /\ (ltrace.args.outputVolume # None => ReadThenRemoved(OutputFile))
    /\ (ltrace.args.outputSegmentation # None => ReadThenRemoved(OutputSegmentationFile))

C3_Witness ==
  /\ ltrace.processInvoked /\ ltrace.exc = "none"
  /\ ltrace.args.outputVolume # None
  /\ ltrace.args.outputSegmentation # None
  /\ ltrace.dir = 2
  /\ <<1, InputFile>> \in files

\* C6: a process call with an output volume and no output segmentation calls
\* run_hd_bet with keep_mask off and bet on, neither reads, removes nor leaves
\* a mask file, and changes no segmentation node.
C6_VolumeOnly ==
  [][(/\ ltrace'.processInvoked
      /\ ltrace'.args.inputVolume # None
      /\ ltrace'.args.outputVolume # None
      /\ ltrace'.args.outputSegmentation = None) =>
       /\ ltrace'.tool.called
       /\ ~ltrace'.tool.keep_mask
       /\ ltrace'.tool.bet
       /\ \A i \in 1..Len(ltrace'.io) :
            /\ ltrace'.io[i] # <<"read", OutputSegmentationFile>>
            /\ ltrace'.io[i] # <<"remove", OutputSegmentationFile>>
            /\ ltrace'.io[i][1] # "tag"
       /\ <<ltrace'.dir, OutputSegmentationFile>> \notin files'
       /\ segData' = segData]_vars

C6_Witness ==
  /\ ltrace.processInvoked /\ ltrace.exc = "none"
  /\ ltrace.args.outputVolume = "v2"
  /\ ltrace.args.outputSegmentation = None
  /\ volumeData["v2"] = "stripped"
  /\ InIo(<<"read", OutputFile>>)

\* C8: when PyTorch is absent and the user declines its installation,
\* setupPythonRequirements raises the configuration ValueError having done
\* nothing else (no download, extraction, move, makedirs, pip install), and
\* onApplyButton does not call process.
C8_DeclinedTorchStopsEverything ==
  InSetup("installTorch:declined") =>
    /\ ltrace.setup = <<"installTorch:declined">>
    /\ ltrace.exc = ValueErrorTorch
    /\ ~ltrace.processInvoked
    /\ ltrace.io = <<>>
    /\ ~installed.torch

C8_Witness ==
  /\ ltrace.call = "onApplyButton"
  /\ InSetup("installTorch:declined")
  /\ ~installed.HD_BET /\ ~installed.batchgenerators /\ ~paramDir

\* C9: a run of setupPythonRequirements installs a package only if it was
\* absent, and once a run has returned normally every further run installs,
\* downloads, extracts, moves and pip-installs nothing and leaves the
\* installed packages as they were.
InstallEffects ==
  {"installTorch", "installTorch:declined", "installTorch:failed", "tempDirectory",
   "downloadFile", "downloadFile:failed", "extractArchive", "move",
   "pip_install", "pip_install:failed"}

C9_SetupIdempotent ==
  [][(ltrace'.call \in {"setupPythonRequirements", "onApplyButton"}) =>
       /\ ((\E i \in 1..Len(ltrace'.setup) :
              ltrace'.setup[i] \in {"installTorch", "installTorch:declined",
                                    "installTorch:failed"}) => ~installed.torch)
       /\ ((\E i \in 1..Len(ltrace'.setup) :
              ltrace'.setup[i] \in {"tempDirectory", "downloadFile", "downloadFile:failed",
                                    "extractArchive", "move"}) => ~installed.HD_BET)
       /\ ((\E i \in 1..Len(ltrace'.setup) :
              ltrace'.setup[i] \in {"pip_install", "pip_install:failed"}) =>
             ~installed.batchgenerators)
       /\ (setupCompleted =>
             /\ \A i \in 1..Len(ltrace'.setup) : ltrace'.setup[i] \notin InstallEffects
             /\ installed' = installed
             /\ paramDir' = paramDir)]_vars

C9_Witness ==
  /\ ltrace.call = "setupPythonRequirements"
  /\ ltrace.completedBefore
  /\ ltrace.exc = "none"
  /\ ltrace.setup = <<"makedirs">>

\* C10: when run_hd_bet raises, process ends with that error, the input temp
\* file it wrote is still on disk, nothing was read or removed, and no
\* output volume or segmentation is changed.
C10_ToolFailureLeaksInput ==
  [][(ltrace'.tool.called /\ ltrace'.tool.raised) =>
       /\ ltrace'.exc = "ToolError"
       /\ InIo(<<"write", InputFile>>)'
       /\ <<ltrace'.dir, InputFile>> \in files'
       /\ \A i \in 1..Len(ltrace'.io) : ltrace'.io[i][1] \notin {"read", "remove", "tag"}
       /\ volumeData' = volumeData
       /\ segData' = segData]_vars

C10_Witness ==
  /\ ltrace.tool.called /\ ltrace.tool.raised
  /\ ltrace.exc = "ToolError"
  /\ <<ltrace.dir, InputFile>> \in files
  /\ ltrace.args.outputVolume # None /\ ltrace.args.outputSegmentation # None
  /\ <<ltrace.dir, OutputSegmentationFile>> \in files

\* C4 as stated: in every reachable state the Apply button is enabled only
\* when an input volume and at least one output are selected (read as
\* generously as possible: selected in the GUI or referenced by the
\* parameter node).
GuiHasInputAndOutput ==
  /\ ui.inputVolumeSelector # None
  /\ (ui.outputVolumeSelector # None \/ ui.outputSegmentationSelector # None)

ParameterNodeHasInputAndOutput ==
  /\ pn.exists
  /\ pn.InputVolume # None
  /\ (pn.OutputVolume # None \/ pn.OutputSegmentation # None)

C4_ApplyEnabledOnlyWhenSelected ==
  ui.applyEnabled => (GuiHasInputAndOutput \/ ParameterNodeHasInputAndOutput)

\* C4 amended: in every reachable state in which the widget observes its
\* parameter node, the Apply button is enabled only when an input volume
\* and at least one output are selected, in the GUI and in the parameter node.
C4_ApplyEnabledWhileObserved ==
  (observed /\ ui.applyEnabled) => (GuiHasInputAndOutput /\ ParameterNodeHasInputAndOutput)

C4_Witness ==
  /\ observed /\ ui.applyEnabled
  /\ wtrace.event = "gui"
  /\ ui.outputVolumeSelector = None /\ ui.outputSegmentationSelector # None

\* C5: a change of the observed parameter node causes exactly one GUI
\* refresh; the widget signals that refresh fires write nothing back; and
\* afterwards the three selectors show the parameter node's references.
C5_NoUpdateCycle ==
  (wtrace.event = "script" /\ wtrace.observedBefore) =>
    /\ wtrace.refreshes = 1
    /\ wtrace.writeBacks = 0
    /\ ui.inputVolumeSelector = pn.InputVolume
    /\ ui.outputVolumeSelector = pn.OutputVolume
    /\ ui.outputSegmentationSelector = pn.OutputSegmentation

C5_Witness ==
  /\ wtrace.event = "script" /\ wtrace.observedBefore
  /\ wtrace.refreshes = 1
  /\ wtrace.signals >= 1
  /\ ui.outputVolumeSelector # None

\* C7: setDefaultParameters sets Device to "auto" when it is unset, leaves
\* any other value alone, changes no node reference, and applying it again
\* changes nothing.
C7_SetDefaultParameters ==
  [][(wtrace'.event = "setDefaultParameters") =>
       /\ pn'.Device = (IF pn.Device = "" THEN "auto" ELSE pn.Device)
       /\ pn'.InputVolume = pn.InputVolume
       /\ pn'.OutputVolume = pn.OutputVolume
       /\ pn'.OutputSegmentation = pn.OutputSegmentation
       /\ setDefaultParameters(pn') = pn']_vars

C7_Witness ==
  /\ wtrace.event = "setDefaultParameters"
  /\ wtrace.refreshes = 1
  /\ pn.Device = "auto"
  /\ pn.OutputVolume # None

\* C11: the re-entrancy flag _updatingGUIFromParameterNode is false whenever
\* no GUI refresh is executing (in every state between widget events), so a
\* user's GUI change made while a parameter node is set is never dropped: it
\* is written to the parameter node, which then holds the GUI's selections.
C11_FlagClearAndGuiChangeWritten ==
  /\ ~updatingGUI
  /\ (wtrace.event = "gui" /\ parameterNode) =>
       /\ wtrace.writeBacks = 1
       /\ pn.InputVolume = ui.inputVolumeSelector
       /\ pn.OutputVolume = ui.outputVolumeSelector
       /\ pn.OutputSegmentation = ui.outputSegmentationSelector
       /\ pn.Device = DeviceItems[ui.deviceIndex + 1]

C11_Witness ==
  /\ ~updatingGUI
  /\ wtrace.event = "gui" /\ parameterNode
  /\ wtrace.refreshes = 1 /\ wtrace.writeBacks = 1
  /\ ui.inputVolumeSelector = None
  /\ ui.outputSegmentationSelector # None

====
